---- MODULE Spec2Model ----
(***************************************************************************)
(* Model of api/lookup.py: the address normaliser, the lot-number parser,  *)
(* the district index with its tiered lookup, the PNU assembler and the    *)
(* request handler.                                                        *)
(*                                                                         *)
(* A Python str is a sequence of characters.  A character is a short       *)
(* string: a Hangul syllable is written in its romanised form ("seo",      *)
(* "ul", "si" for the three syllables of Seoul-si; "san" is the mountain   *)
(* marker and also the second syllable of Busan), every other character    *)
(* stands for itself.  Python's None is the empty tuple and a present      *)
(* value v is <<v>>.                                                       *)
(***************************************************************************)
EXTENDS Integers, Sequences, FiniteSets, TLC

VARIABLES
    _INDEX,     \* the module-level PNUIndex built at import
    loads,      \* how many times PNUIndex.__init__ has run
    phase,      \* "idle": waiting for a request; "responded": handler returned
    request,    \* the request the handler was last called with
    response,   \* what the handler returned for it
    call        \* one call of a pure function: its arguments and results

vars == <<_INDEX, loads, phase, request, response, call>>

None == <<>>
Some(v) == <<v>>

(***************************************************************************)
(* Bounds of the model.                                                    *)
(***************************************************************************)
MaxRows == 2            \* rows of the reference table
MaxNormFrags == 4       \* fragments an input of normalize_address is made of
MaxParseFrags == 4      \* fragments an input of parse_bunjib is made of
MaxTokens == 4          \* tokens of the district-name part of an address

(***************************************************************************)
(* Characters.                                                             *)
(***************************************************************************)
WS == {" ", "\t"}                                   \* what \s and str.strip() take
DIGITS == <<"0", "1", "2", "3", "4", "5", "6", "7", "8", "9">>
_DASHES == <<"fullwidth-minus", "en-dash", "em-dash">>
NONWORD == WS \cup {"-", ",", "(", ")", "+", "%20", "%2520"}
               \cup {_DASHES[i] : i \in 1..Len(_DASHES)}

IsDigit(c) == \E i \in 1..Len(DIGITS) : DIGITS[i] = c
IsWord(c) == c \notin NONWORD                        \* \w: letters, syllables, digits

(***************************************************************************)
(* str methods.                                                            *)
(***************************************************************************)
RECURSIVE lstrip(_)
lstrip(s) == IF s # <<>> /\ Head(s) \in WS THEN lstrip(Tail(s)) ELSE s

RECURSIVE rstrip(_)
rstrip(s) ==
    IF s # <<>> /\ s[Len(s)] \in WS THEN rstrip(SubSeq(s, 1, Len(s) - 1)) ELSE s

strip(s) == rstrip(lstrip(s))

startswith(s, p) == Len(p) <= Len(s) /\ SubSeq(s, 1, Len(p)) = p

endswith(s, p) == Len(p) <= Len(s) /\ SubSeq(s, Len(s) - Len(p) + 1, Len(s)) = p

\* sub in s
contains(s, sub) ==
    \E i \in 0..(Len(s) - Len(sub)) : SubSeq(s, i + 1, i + Len(sub)) = sub

\* s.replace(old, new): every non-overlapping occurrence, left to right
RECURSIVE replace(_, _, _)
replace(s, old, new) ==
    IF s = <<>> THEN <<>>
    ELSE IF startswith(s, old)
         THEN new \o replace(SubSeq(s, Len(old) + 1, Len(s)), old, new)
         ELSE <<Head(s)>> \o replace(Tail(s), old, new)

\* s.split(" ")
RECURSIVE split(_)
split(s) ==
    IF \A i \in 1..Len(s) : s[i] # " " THEN <<s>>
    ELSE LET k == CHOOSE i \in 1..Len(s) :
                      s[i] = " " /\ \A j \in 1..(i - 1) : s[j] # " "
         IN <<SubSeq(s, 1, k - 1)>> \o split(SubSeq(s, k + 1, Len(s)))

\* " ".join(parts)
RECURSIVE join(_)
join(parts) ==
    IF parts = <<>> THEN <<>>
    ELSE IF Len(parts) = 1 THEN parts[1]
    ELSE parts[1] \o <<" ">> \o join(Tail(parts))

\* int(digits)
RECURSIVE int(_)
int(ds) ==
    IF ds = <<>> THEN 0
    ELSE int(SubSeq(ds, 1, Len(ds) - 1)) * 10
         + ((CHOOSE i \in 1..Len(DIGITS) : DIGITS[i] = ds[Len(ds)]) - 1)

\* str(n) for n >= 0
RECURSIVE str(_)
str(n) == IF n < 10 THEN <<DIGITS[n + 1]>> ELSE str(n \div 10) \o <<DIGITS[(n % 10) + 1]>>

\* s.zfill(width)
RECURSIVE zfill(_, _)
zfill(s, width) == IF Len(s) >= width THEN s ELSE zfill(<<"0">> \o s, width)

\* f"{n:04d}": the sign counts in the width
Format04d(n) == IF n >= 0 THEN zfill(str(n), 4) ELSE <<"-">> \o zfill(str(-n), 3)

(***************************************************************************)
(* _norm_spaces, lines 26-27; normalize_address, lines 50-56.              *)
(***************************************************************************)
\* re.sub(r"\s+", " ", s)
RECURSIVE sub_spaces(_)
sub_spaces(s) ==
    IF s = <<>> THEN <<>>
    ELSE IF Head(s) \in WS THEN <<" ">> \o sub_spaces(lstrip(s))
    ELSE <<Head(s)>> \o sub_spaces(Tail(s))

_norm_spaces(s) == strip(sub_spaces(s))

SEOUL_SI == <<"seo", "ul", "si">>
SEOUL_TEUKBYEOLSI == <<"seo", "ul", "teuk", "byeol", "si">>
SEOUL_SP_TEUKBYEOLSI == <<"seo", "ul", " ", "teuk", "byeol", "si">>
GWANGYEOK_SP_SI == <<"gwang", "yeok", " ", "si">>
GWANGYEOKSI == <<"gwang", "yeok", "si">>

RECURSIVE replace_dashes(_, _)
replace_dashes(s, i) ==
    IF i > Len(_DASHES) THEN s
    ELSE replace_dashes(replace(s, <<_DASHES[i]>>, <<"-">>), i + 1)

normalize_address(s) ==
    LET s1 == strip(s)
        s2 == replace(replace(s1, SEOUL_SI, SEOUL_TEUKBYEOLSI),
                      SEOUL_SP_TEUKBYEOLSI, SEOUL_TEUKBYEOLSI)
        s3 == replace(s2, GWANGYEOK_SP_SI, GWANGYEOKSI)
    IN _norm_spaces(replace_dashes(s3, 1))

(***************************************************************************)
(* Inputs made of fragments.                                               *)
(***************************************************************************)
RECURSIVE concat(_)
concat(ss) == IF ss = <<>> THEN <<>> ELSE Head(ss) \o concat(Tail(ss))

Strings(frags, n) == {concat(f) : f \in UNION {[1..k -> frags] : k \in 0..n}}

(***************************************************************************)
(* normalize_address as a call, applied to its own result.                 *)
(***************************************************************************)
NormFrags ==
    {<<"seo", "ul">>, <<"si">>, <<"teuk", "byeol", "si">>, <<"gwang", "yeok">>,
     <<" ">>, <<"\t">>, <<"en-dash">>, <<"1">>}

Idle == [fn |-> "none"]

InitNormalize ==
    /\ _INDEX = None /\ loads = 0 /\ phase = "idle"
    /\ request = None /\ response = None
    /\ \E s \in Strings(NormFrags, MaxNormFrags) :
           call = [fn |-> "normalize_address", s |-> s, once |-> None, twice |-> None]

normalize_once ==
    /\ call.once = None
    /\ call' = [call EXCEPT !.once = Some(normalize_address(call.s))]
    /\ UNCHANGED <<_INDEX, loads, phase, request, response>>

normalize_twice ==
    /\ call.once # None /\ call.twice = None
    /\ call' = [call EXCEPT !.twice = Some(normalize_address(call.once[1]))]
    /\ UNCHANGED <<_INDEX, loads, phase, request, response>>

NextNormalize == normalize_once \/ normalize_twice

SpecNormalize == InitNormalize /\ [][NextNormalize]_vars

\* C7: normalize_address is idempotent: applying it to its own result
\* changes nothing, for every input string.
C7_Idempotent == call.twice # None => call.twice = call.once

(***************************************************************************)
(* _BUN_JI_RE, lines 59-68, as the matcher re runs it.                     *)
(*                                                                         *)
(* A position is the index of the next character to read.  The pattern    *)
(* is, in order: a boundary (the start of the string, or one character    *)
(* that is whitespace, a comma or a parenthesis); optionally san and any  *)
(* whitespace; bun, 1 to 6 digits; optionally any whitespace, a hyphen,   *)
(* any whitespace and ji, 1 to 6 digits; and no digit may follow.         *)
(* Backtracking leaves one way to match from a given start: the digits of *)
(* bun are a whole run of 1 to 6 digits (a shorter prefix is followed by  *)
(* a digit, which neither the hyphen nor the lookahead accepts), and the  *)
(* ji group takes part only when its digits are a whole run of 1 to 6     *)
(* digits too.                                                            *)
(***************************************************************************)
SAN == "san"
BOUNDARY == WS \cup {",", "(", ")"}

RECURSIVE skip_spaces(_, _)
skip_spaces(s, i) == IF i <= Len(s) /\ s[i] \in WS THEN skip_spaces(s, i + 1) ELSE i

RECURSIVE skip_digits(_, _)
skip_digits(s, i) == IF i <= Len(s) /\ IsDigit(s[i]) THEN skip_digits(s, i + 1) ELSE i

\* the pattern after its boundary, read from position p of a match begun at start
match_lot(s, start, p) ==
    LET b0 == IF p <= Len(s) /\ s[p] = SAN THEN skip_spaces(s, p + 1) ELSE p
        b1 == skip_digits(s, b0)
        h  == skip_spaces(s, b1)
        j0 == skip_spaces(s, h + 1)
        j1 == skip_digits(s, j0)
    IN IF b1 - b0 < 1 \/ b1 - b0 > 6 THEN None
       ELSE IF h <= Len(s) /\ s[h] = "-" /\ j1 - j0 >= 1 /\ j1 - j0 <= 6
       THEN Some([start |-> start, end |-> j1,
                  bun |-> SubSeq(s, b0, b1 - 1), ji |-> Some(SubSeq(s, j0, j1 - 1))])
       ELSE Some([start |-> start, end |-> b1,
                  bun |-> SubSeq(s, b0, b1 - 1), ji |-> None])

\* a match beginning at position i: "^" first, then a boundary character
match_at(s, i) ==
    IF i = 1 /\ match_lot(s, 1, 1) # None THEN match_lot(s, 1, 1)
    ELSE IF i <= Len(s) /\ s[i] \in BOUNDARY THEN match_lot(s, i, i + 1)
    ELSE None

\* _BUN_JI_RE.finditer(s), from position pos: leftmost matches, each search
\* resuming where the previous match ended
RECURSIVE finditer(_, _)
finditer(s, pos) ==
    IF pos > Len(s) THEN <<>>
    ELSE IF match_at(s, pos) # None
         THEN match_at(s, pos) \o finditer(s, match_at(s, pos)[1].end)
         ELSE finditer(s, pos + 1)

\* re.search of: word boundary, san, any whitespace, a digit.  san is a word
\* character, so the boundary holds exactly when no word character precedes it
search_san(s) ==
    \E i \in 1..Len(s) :
        /\ s[i] = SAN
        /\ i = 1 \/ ~IsWord(s[i - 1])
        /\ LET k == skip_spaces(s, i + 1) IN k <= Len(s) /\ IsDigit(s[k])

(***************************************************************************)
(* parse_bunjib, lines 69-77; _strip_bunjib, lines 79-80.                  *)
(***************************************************************************)
\* parse_bunjib taking the first match instead of the last
parse_bunjib_first_match(addr) ==
    LET mt == IF search_san(addr) THEN 1 ELSE 0
        matches == finditer(addr, 1)
    IN IF matches = <<>> THEN [mt |-> mt, bun |-> None, ji |-> None]
       ELSE LET m == matches[1]
            IN [mt |-> mt,
                bun |-> Some(int(m.bun)),
                ji |-> Some(IF m.ji # None THEN int(m.ji[1]) ELSE 0)]

parse_bunjib(addr) ==
    LET mt == IF search_san(addr) THEN 1 ELSE 0
        matches == finditer(addr, 1)
    IN IF matches = <<>> THEN [mt |-> mt, bun |-> None, ji |-> None]
       ELSE LET m == matches[Len(matches)]
            IN [mt |-> mt,
                bun |-> Some(int(m.bun)),
                ji |-> Some(IF m.ji # None THEN int(m.ji[1]) ELSE 0)]

RECURSIVE sub_matches(_, _, _)
sub_matches(s, matches, pos) ==
    IF matches = <<>> THEN SubSeq(s, pos, Len(s))
    ELSE SubSeq(s, pos, Head(matches).start - 1) \o <<" ">>
         \o sub_matches(s, Tail(matches), Head(matches).end)

_strip_bunjib(addr) == sub_matches(addr, finditer(addr, 1), 1)

(***************************************************************************)
(* parse_bunjib as a call.                                                 *)
(***************************************************************************)
ParseFrags ==
    {<<SAN>>, <<" ">>, <<"-">>, <<"dong">>, <<",">>, <<"1">>, <<"2", "3">>,
     <<"4", "5", "6", "7", "8", "9">>}

InitParse ==
    /\ _INDEX = None /\ loads = 0 /\ phase = "idle"
    /\ request = None /\ response = None
    /\ \E s \in Strings(ParseFrags, MaxParseFrags) :
           call = [fn |-> "parse_bunjib", addr |-> s, ret |-> None]

parse_call ==
    /\ call.ret = None
    /\ call' = [call EXCEPT !.ret = Some(parse_bunjib(call.addr))]
    /\ UNCHANGED <<_INDEX, loads, phase, request, response>>

NextParse == parse_call

SpecParse == InitParse /\ [][NextParse]_vars

(***************************************************************************)
(* PNUIndex.build_pnu19, lines 146-148, as a call.                         *)
(***************************************************************************)
build_pnu19(code10, mt, bun, ji) ==
    code10 \o str(mt) \o Format04d(bun) \o Format04d(ji)

LotValues == {-1, 0, 7, 123, 9999, 10000, 123456}
Codes10 == {zfill(<<"1", "1">>, 10), zfill(<<"1", "1", "6", "8", "0", "1", "0", "1", "0", "0">>, 10)}

InitBuild ==
    /\ _INDEX = None /\ loads = 0 /\ phase = "idle"
    /\ request = None /\ response = None
    /\ \E c \in Codes10, mt \in {0, 1}, bun \in LotValues, ji \in LotValues :
           call = [fn |-> "build_pnu19", code10 |-> c, mt |-> mt,
                   bun |-> bun, ji |-> ji, ret |-> None]

build_call ==
    /\ call.ret = None
    /\ call' = [call EXCEPT !.ret =
                    Some(build_pnu19(call.code10, call.mt, call.bun, call.ji))]
    /\ UNCHANGED <<_INDEX, loads, phase, request, response>>

NextBuild == build_call

SpecBuild == InitBuild /\ [][NextBuild]_vars

\* C4: build_pnu19 returns the InvalidLotNumber failure and no identifier
\* whenever bun or ji is negative or greater than 9999.
InvalidLotNumber == <<"InvalidLotNumber">>
C4_GuardsLotRange ==
    (call.ret # None /\ (call.bun \notin 0..9999 \/ call.ji \notin 0..9999))
        => call.ret[1] = InvalidLotNumber

(***************************************************************************)
(* _fix_input_text, lines 29-48.  A percent escape is one character of the *)
(* model: "%20" decodes to a space and "%2520" (a doubly encoded space) to *)
(* "%20".  No input of the model holds U+FFFD, so the CP949 recovery of    *)
(* lines 43-47 is never entered.                                           *)
(***************************************************************************)
unquote_plus(s) ==
    [i \in 1..Len(s) |->
        IF s[i] = "+" \/ s[i] = "%20" THEN " "
        ELSE IF s[i] = "%2520" THEN "%20" ELSE s[i]]

has_percent(s) == \E i \in 1..Len(s) : s[i] \in {"%20", "%2520"}

_fix_input_text(raw) ==
    IF raw = <<>> THEN <<>>
    ELSE LET text == unquote_plus(raw)
         IN strip(IF has_percent(text) /\ unquote_plus(text) # text
                  THEN unquote_plus(text) ELSE text)

(***************************************************************************)
(* _SI_SYNONYMS and _canonical_si, lines 83-102.                           *)
(***************************************************************************)
_SI_SYNONYMS == <<
    <<<<"seo", "ul">>, <<"seo", "ul", "teuk", "byeol", "si">>>>,
    <<<<"seo", "ul", "si">>, <<"seo", "ul", "teuk", "byeol", "si">>>>,
    <<<<"bu", "san">>, <<"bu", "san", "gwang", "yeok", "si">>>>,
    <<<<"bu", "san", "si">>, <<"bu", "san", "gwang", "yeok", "si">>>>,
    <<<<"in", "cheon">>, <<"in", "cheon", "gwang", "yeok", "si">>>>,
    <<<<"in", "cheon", "si">>, <<"in", "cheon", "gwang", "yeok", "si">>>>,
    <<<<"dae", "gu">>, <<"dae", "gu", "gwang", "yeok", "si">>>>,
    <<<<"dae", "gu", "si">>, <<"dae", "gu", "gwang", "yeok", "si">>>>,
    <<<<"dae", "jeon">>, <<"dae", "jeon", "gwang", "yeok", "si">>>>,
    <<<<"dae", "jeon", "si">>, <<"dae", "jeon", "gwang", "yeok", "si">>>>,
    <<<<"gwang", "ju">>, <<"gwang", "ju", "gwang", "yeok", "si">>>>,
    <<<<"gwang", "ju", "si">>, <<"gwang", "ju", "gwang", "yeok", "si">>>>,
    <<<<"ul", "san">>, <<"ul", "san", "gwang", "yeok", "si">>>>,
    <<<<"ul", "san", "si">>, <<"ul", "san", "gwang", "yeok", "si">>>>,
    <<<<"se", "jong">>, <<"se", "jong", "teuk", "byeol", "ja", "chi", "si">>>>,
    <<<<"se", "jong", "si">>, <<"se", "jong", "teuk", "byeol", "ja", "chi", "si">>>>,
    <<<<"je", "ju">>, <<"je", "ju", "teuk", "byeol", "ja", "chi", "do">>>>,
    <<<<"je", "ju", "si">>, <<"je", "ju", "teuk", "byeol", "ja", "chi", "do">>>>,
    <<<<"gyeong", "gi">>, <<"gyeong", "gi", "do">>>>,
    <<<<"gang", "won">>, <<"gang", "won", "teuk", "byeol", "ja", "chi", "do">>>>,
    <<<<"gang", "won", "do">>, <<"gang", "won", "teuk", "byeol", "ja", "chi", "do">>>>,
    <<<<"chung", "buk">>, <<"chung", "cheong", "buk", "do">>>>,
    <<<<"chung", "nam">>, <<"chung", "cheong", "nam", "do">>>>,
    <<<<"jeon", "buk">>, <<"jeon", "buk", "teuk", "byeol", "ja", "chi", "do">>>>,
    <<<<"jeon", "ra", "buk", "do">>, <<"jeon", "buk", "teuk", "byeol", "ja", "chi", "do">>>>,
    <<<<"jeon", "nam">>, <<"jeon", "ra", "nam", "do">>>>,
    <<<<"gyeong", "buk">>, <<"gyeong", "sang", "buk", "do">>>>,
    <<<<"gyeong", "nam">>, <<"gyeong", "sang", "nam", "do">>>>
>>

_canonical_si(token) ==
    LET t == strip(token)
    IN IF \E i \in 1..Len(_SI_SYNONYMS) : _SI_SYNONYMS[i][1] = t
       THEN _SI_SYNONYMS[CHOOSE i \in 1..Len(_SI_SYNONYMS) : _SI_SYNONYMS[i][1] = t][2]
       ELSE t

(***************************************************************************)
(* _split_parts, lines 104-112.                                            *)
(***************************************************************************)
_split_parts(name) ==
    LET parts == IF name # <<>> THEN split(_norm_spaces(name)) ELSE <<>>
    IN IF parts = <<>> THEN [si |-> None, sigu |-> None, emd |-> None]
       ELSE IF Len(parts) = 1 THEN [si |-> Some(parts[1]), sigu |-> None, emd |-> None]
       ELSE IF Len(parts) = 2
            THEN [si |-> Some(parts[1]), sigu |-> None, emd |-> Some(parts[2])]
       ELSE [si |-> Some(parts[1]), sigu |-> Some(parts[2]),
             emd |-> Some(parts[Len(parts)])]

\* the truth value of an optional str: None and "" are false
truthy(v) == v # None /\ v[1] # <<>>

(***************************************************************************)
(* A dict is the sequence of its <<key, value>> pairs in insertion order:  *)
(* writing an existing key keeps its place.                                *)
(***************************************************************************)
dict_has(d, k) == \E i \in 1..Len(d) : d[i][1] = k
dict_get(d, k) == d[CHOOSE i \in 1..Len(d) : d[i][1] = k][2]
dict_set(d, k, v) ==
    IF dict_has(d, k) THEN [i \in 1..Len(d) |-> IF d[i][1] = k THEN <<k, v>> ELSE d[i]]
    ELSE Append(d, <<k, v>>)
dict_keys(d) == [i \in 1..Len(d) |-> d[i][1]]
\* d.setdefault(k, []).append(v)
dict_append(d, k, v) ==
    IF dict_has(d, k) THEN dict_set(d, k, Append(dict_get(d, k), v))
    ELSE Append(d, <<k, <<v>>>>)
\* d.get(k, [])
dict_get_list(d, k) == IF dict_has(d, k) THEN dict_get(d, k) ELSE <<>>

(***************************************************************************)
(* PNUIndex.__init__, lines 118-144.  A CSV file is whether it can be      *)
(* read, its columns, and its data rows: a district name and a pnu.        *)
(***************************************************************************)
COL_NAME == "beopjeongdong"
COL_PNU == "pnu"

EmptyIndex ==
    [ok |-> FALSE, rows |-> <<>>, by_full |-> <<>>, by_sigu_emd |-> <<>>, by_emd |-> <<>>]

\* lines 130-132
RECURSIVE read_rows(_)
read_rows(data) ==
    IF data = <<>> THEN <<>>
    ELSE <<[name |-> _norm_spaces(strip(Head(data).name)),
            pnu |-> zfill(Head(data).pnu, 10)]>> \o read_rows(Tail(data))

\* lines 133-140
RECURSIVE index_rows(_, _)
index_rows(ix, rs) ==
    IF rs = <<>> THEN ix
    ELSE LET full == Head(rs).name
             code == Head(rs).pnu
             p == _split_parts(full)
         IN index_rows(
                [ix EXCEPT
                    !.by_full = dict_set(@, full, code),
                    !.by_sigu_emd =
                        IF truthy(p.emd) /\ truthy(p.sigu)
                        THEN dict_append(@, <<p.sigu[1], p.emd[1]>>,
                                         <<full, code, p.si>>)
                        ELSE @,
                    !.by_emd =
                        IF truthy(p.emd)
                        THEN dict_append(@, p.emd[1], <<full, code, p.si, p.sigu>>)
                        ELSE @],
                Tail(rs))

PNUIndex(csv) ==
    IF ~csv.readable \/ COL_NAME \notin csv.columns \/ COL_PNU \notin csv.columns
    THEN EmptyIndex
    ELSE [index_rows([EmptyIndex EXCEPT !.rows = read_rows(csv.data)],
                     read_rows(csv.data))
          EXCEPT !.ok = TRUE]

(***************************************************************************)
(* The results of a lookup.  The five message texts of lines 153-255 are   *)
(* named; "at" is the line of the return statement that produced the       *)
(* result.                                                                 *)
(***************************************************************************)
MSG_EMPTY == "query is empty"                       \* line 153
MSG_SIGU_EMD == "same sigungu and dong in several provinces"   \* line 181
MSG_REGION == "several regions match, include the sigungu"     \* lines 198, 227, 251
MSG_EMD == "several regions match, include the sigungu as in Seocho-gu Yangjae-dong"  \* line 213
MSG_NOT_FOUND == "dong not found"                   \* lines 207, 232, 255

Resolved(code, full, at) ==
    [ok |-> TRUE, admCd10 |-> Some(code), matched |-> Some(full), error |-> None,
     query |-> None, candidates |-> None, at |-> at]

Failed(error, query, candidates, at) ==
    [ok |-> FALSE, admCd10 |-> None, matched |-> None, error |-> Some(error),
     query |-> Some(query), candidates |-> candidates, at |-> at]

firsts(hits) == [i \in 1..Len(hits) |-> hits[i][1]]

(***************************************************************************)
(* PNUIndex._lookup_pnu10_from_name, lines 150-232.                        *)
(***************************************************************************)
SIGU_SUFFIXES == {"gu", "gun", "si"}

\* lines 186-191: the names of by_full whose province is key_si and dong is b
RECURSIVE scan_si_emd(_, _, _)
scan_si_emd(keys, key_si, b) ==
    IF keys = <<>> THEN <<>>
    ELSE LET p == _split_parts(Head(keys))
         IN (IF p.si = Some(key_si) /\ p.emd = Some(b) THEN <<Head(keys)>> ELSE <<>>)
            \o scan_si_emd(Tail(keys), key_si, b)

\* lookup_two without the by_sigu_emd lookup of lines 171-184
lookup_two_province_only(ix, name, a, b) ==
    LET cands == scan_si_emd(dict_keys(ix.by_full), _canonical_si(a), b)
    IN IF Len(cands) = 1
       THEN Some(Resolved(dict_get(ix.by_full, cands[1]), cands[1], 194))
       ELSE IF Len(cands) > 1 THEN Some(Failed(MSG_REGION, name, Some(cands), 196))
       ELSE None

\* lines 168-201: None when the code falls through to the fallback
lookup_two(ix, name, a, b) ==
    LET hits == dict_get_list(ix.by_sigu_emd, <<a, b>>)
        cands == scan_si_emd(dict_keys(ix.by_full), _canonical_si(a), b)
    IN IF a[Len(a)] \in SIGU_SUFFIXES /\ dict_has(ix.by_sigu_emd, <<a, b>>)
       THEN IF Len(hits) = 1 THEN Some(Resolved(hits[1][2], hits[1][1], 177))
            ELSE Some(Failed(MSG_SIGU_EMD, name, Some(firsts(hits)), 179))
       ELSE IF Len(cands) = 1
            THEN Some(Resolved(dict_get(ix.by_full, cands[1]), cands[1], 194))
       ELSE IF Len(cands) > 1 THEN Some(Failed(MSG_REGION, name, Some(cands), 196))
       ELSE None

\* lookup_one resolving to the first hit however many there are
lookup_one_first_hit(ix, name, emd) ==
    LET hits == dict_get_list(ix.by_emd, emd)
    IN IF hits = <<>> THEN Failed(MSG_NOT_FOUND, name, None, 207)
       ELSE Resolved(hits[1][2], hits[1][1], 210)

\* lines 203-216
lookup_one(ix, name, emd) ==
    LET hits == dict_get_list(ix.by_emd, emd)
    IN IF hits = <<>> THEN Failed(MSG_NOT_FOUND, name, None, 207)
       ELSE IF Len(hits) = 1 THEN Resolved(hits[1][2], hits[1][1], 210)
       ELSE Failed(MSG_EMD, name, Some(firsts(hits)), 211)

\* lines 218-232
RECURSIVE select_endswith(_, _)
select_endswith(keys, tail) ==
    IF keys = <<>> THEN <<>>
    ELSE (IF endswith(Head(keys), tail) THEN <<Head(keys)>> ELSE <<>>)
         \o select_endswith(Tail(keys), tail)

\* lookup_tail comparing the last token alone
lookup_tail_last_token(ix, name, parts) ==
    LET cands2 == select_endswith(dict_keys(ix.by_full), parts[Len(parts)])
    IN IF Len(cands2) = 1 THEN Resolved(dict_get(ix.by_full, cands2[1]), cands2[1], 223)
       ELSE IF Len(cands2) > 1 THEN Failed(MSG_REGION, name, Some(cands2), 225)
       ELSE Failed(MSG_NOT_FOUND, name, None, 232)

lookup_tail(ix, name, parts) ==
    LET n == Len(parts)
        tail2 == IF n >= 2 THEN join(SubSeq(parts, n - 1, n)) ELSE parts[n]
        cands2 == select_endswith(dict_keys(ix.by_full), tail2)
    IN IF Len(cands2) = 1 THEN Resolved(dict_get(ix.by_full, cands2[1]), cands2[1], 223)
       ELSE IF Len(cands2) > 1 THEN Failed(MSG_REGION, name, Some(cands2), 225)
       ELSE Failed(MSG_NOT_FOUND, name, None, 232)

\* lines 155-157: the tokens of q, the first one made canonical
canonical_parts(q) ==
    LET parts == split(q) IN [parts EXCEPT ![1] = _canonical_si(parts[1])]

_lookup_pnu10_from_name(ix, name) ==
    LET q == _norm_spaces(name)
        parts == canonical_parts(q)
        n == Len(parts)
        full == join(parts)
        cand == join(<<_canonical_si(parts[n - 2]), parts[n - 1], parts[n]>>)
    IN IF q = <<>> THEN Failed(MSG_EMPTY, name, None, 153)
       ELSE IF dict_has(ix.by_full, full)
            THEN Resolved(dict_get(ix.by_full, full), full, 161)
       ELSE IF n >= 3 /\ dict_has(ix.by_full, cand)
            THEN Resolved(dict_get(ix.by_full, cand), cand, 166)
       ELSE IF n = 2 /\ lookup_two(ix, name, parts[1], parts[2]) # None
            THEN lookup_two(ix, name, parts[1], parts[2])[1]
       ELSE IF n = 1 THEN lookup_one(ix, name, parts[1])
       ELSE lookup_tail(ix, name, parts)

(***************************************************************************)
(* PNUIndex.lookup_from_address, lines 234-255.                            *)
(***************************************************************************)
RECURSIVE select_contained(_, _)
select_contained(keys, cleaned) ==
    IF keys = <<>> THEN <<>>
    ELSE (IF contains(cleaned, Head(keys)) THEN <<Head(keys)>> ELSE <<>>)
         \o select_contained(Tail(keys), cleaned)

\* lookup_from_address keeping only a resolved result of the name lookup
lookup_from_address_ok_only(ix, address) ==
    LET cleaned == normalize_address(address)
        name_part == _norm_spaces(_strip_bunjib(cleaned))
        res == _lookup_pnu10_from_name(ix, name_part)
        hits == select_contained(dict_keys(ix.by_full), cleaned)
    IN IF res.ok THEN res
       ELSE IF Len(hits) = 1 THEN Resolved(dict_get(ix.by_full, hits[1]), hits[1], 247)
       ELSE IF Len(hits) > 1 THEN Failed(MSG_REGION, address, Some(hits), 249)
       ELSE Failed(MSG_NOT_FOUND, address, None, 255)

lookup_from_address(ix, address) ==
    LET cleaned == normalize_address(address)
        name_part == _norm_spaces(_strip_bunjib(cleaned))
        res == _lookup_pnu10_from_name(ix, name_part)
        hits == select_contained(dict_keys(ix.by_full), cleaned)
    IN IF res.ok \/ (res.candidates # None /\ res.candidates[1] # <<>>) THEN res
       ELSE IF Len(hits) = 1 THEN Resolved(dict_get(ix.by_full, hits[1]), hits[1], 247)
       ELSE IF Len(hits) > 1 THEN Failed(MSG_REGION, address, Some(hits), 249)
       ELSE Failed(MSG_NOT_FOUND, address, None, 255)

(***************************************************************************)
(* handler, lines 263-327.  A request is its method, its query parameters  *)
(* and its JSON body (json.raises: request.json() raises).  A response is  *)
(* its status code and its body; a JSON body is kept as the record "base"  *)
(* it is dumped from, and addr and res10 are the handler's local variables *)
(* of those names when it returned.                                        *)
(***************************************************************************)
upper(method) ==
    CASE method \in {"GET", "get"} -> "GET"
      [] method \in {"POST", "post"} -> "POST"
      [] method \in {"OPTIONS", "options"} -> "OPTIONS"

\* x or y, on optional strs
or(x, y) == IF truthy(x) THEN x ELSE y

BODY_MISSING == "Missing 'text' (or 'query') parameter"     \* line 281
BODY_NOT_LOADED == "PNU10 CSV not loaded"                   \* line 288
BODY_JSON == "json"

TextResponse(status, body) ==
    [statusCode |-> status, body |-> body, base |-> None, addr |-> None, res10 |-> None]

\* lines 270-278
request_q(req) ==
    IF upper(req.method) = "GET" THEN or(req.query.text, req.query.query)
    ELSE IF req.json.raises THEN None
    ELSE or(req.json.text, req.json.query)

\* lines 292-320
json_response(ix, q, addr, p, res10) ==
    LET base == [ok |-> FALSE,
                 input |-> q,
                 normalized |-> addr,
                 full |-> res10.matched,
                 admCd10 |-> res10.admCd10,
                 bun |-> IF p.bun # None THEN Some(Format04d(p.bun[1])) ELSE None,
                 ji |-> IF p.ji # None THEN Some(Format04d(p.ji[1])) ELSE None,
                 mtYn |-> Some(str(p.mt)),
                 pnu |-> None,
                 source |-> "csv",
                 candidates |-> res10.candidates]
        body == IF ~res10.ok THEN base
                ELSE IF p.bun = None THEN [base EXCEPT !.ok = TRUE]
                ELSE [base EXCEPT
                         !.ok = TRUE,
                         !.pnu = Some(build_pnu19(res10.admCd10[1], p.mt, p.bun[1],
                                                  IF p.ji # None THEN p.ji[1] ELSE 0))]
    IN [statusCode |-> 200, body |-> BODY_JSON, base |-> Some(body),
        addr |-> Some(addr), res10 |-> Some(res10)]

\* handler_lookup without the check of _INDEX.ok
handler_lookup_unchecked(ix, q) ==
    LET raw == _fix_input_text(q)
        addr == normalize_address(raw)
        p == parse_bunjib(addr)
    IN json_response(ix, q, addr, p, lookup_from_address(ix, addr))

\* lines 283-290
handler_lookup(ix, q) ==
    LET raw == _fix_input_text(q)
        addr == normalize_address(raw)
        p == parse_bunjib(addr)
    IN IF ~ix.ok THEN TextResponse(500, BODY_NOT_LOADED)
       ELSE json_response(ix, q, addr, p, lookup_from_address(ix, addr))

handler_response(ix, req) ==
    IF upper(req.method) = "OPTIONS" THEN TextResponse(204, "")
    ELSE IF ~truthy(request_q(req)) THEN TextResponse(400, BODY_MISSING)
    ELSE handler_lookup(ix, request_q(req)[1])

(***************************************************************************)
(* The reference tables and the requests of the model.                     *)
(***************************************************************************)
SEOUL == <<"seo", "ul">>
GYEONGGIDO == <<"gyeong", "gi", "do">>
BUSAN_GWANGYEOKSI == <<"bu", "san", "gwang", "yeok", "si">>
SEOCHOGU == <<"seo", "cho", "gu">>
GWANGJUSI == <<"gwang", "ju", "si">>
YANGJAEDONG == <<"yang", "jae", "dong">>

RowUniverse ==
    {[name |-> join(<<SEOUL_TEUKBYEOLSI, SEOCHOGU, YANGJAEDONG>>), pnu |-> <<"1", "1">>],
     [name |-> join(<<SEOUL_TEUKBYEOLSI, SEOCHOGU, YANGJAEDONG>>), pnu |-> <<"1", "2">>],
     [name |-> join(<<BUSAN_GWANGYEOKSI, SEOCHOGU, YANGJAEDONG>>), pnu |-> <<"2", "6">>],
     [name |-> join(<<GYEONGGIDO, GWANGJUSI, YANGJAEDONG>>), pnu |-> <<"4", "1">>],
     [name |-> join(<<GYEONGGIDO, GWANGJUSI>>), pnu |-> <<"4", "1", "6">>],
     [name |-> join(<<SEOCHOGU, YANGJAEDONG>>), pnu |-> <<"5">>]}

Tables == UNION {[1..k -> RowUniverse] : k \in 0..MaxRows}

CsvFiles ==
    {[readable |-> TRUE, columns |-> {COL_NAME, COL_PNU}, data |-> d] : d \in Tables}
    \cup {[readable |-> FALSE, columns |-> {}, data |-> <<>>],
          [readable |-> TRUE, columns |-> {COL_NAME}, data |-> <<>>],
          [readable |-> TRUE, columns |-> {COL_PNU}, data |-> <<>>]}

\* zero or one token
Opt(S) == {<<>>} \cup {<<w>> : w \in S}

Lots ==
    {<<>>, <<" ", "san", " ", "1", "2", "-", "3">>, <<" ", "1", "2", "3", "4", "5">>}

TokenLists ==
    {ts \in {pre \o si \o sigu \o emd \o post :
                 pre \in Opt({<<"x">>}),
                 si \in Opt({SEOUL, SEOUL_SI, GYEONGGIDO}),
                 sigu \in Opt({SEOCHOGU, GWANGJUSI}),
                 emd \in Opt({YANGJAEDONG}),
                 post \in Opt({<<"y">>})} : Len(ts) <= MaxTokens}

Addresses == {join(ts) \o lot : ts \in TokenLists, lot \in Lots} \cup {<<" ">>}

NoJson == [raises |-> TRUE, text |-> None, query |-> None]
NoQuery == [text |-> None, query |-> None]

Requests ==
    {[method |-> "GET", query |-> [text |-> Some(a), query |-> None], json |-> NoJson] :
        a \in Addresses}
    \cup {[method |-> m, query |-> [text |-> t, query |-> Some(YANGJAEDONG)],
           json |-> NoJson] : m \in {"get", "OPTIONS"}, t \in {None, Some(<<>>)}}
    \cup {[method |-> "GET", query |-> NoQuery, json |-> NoJson]}
    \cup {[method |-> m, query |-> NoQuery, json |-> j] :
            m \in {"POST", "post", "options"},
            j \in {NoJson,
                   [raises |-> FALSE, text |-> None, query |-> None],
                   [raises |-> FALSE, text |-> Some(<<"+"," ">> \o YANGJAEDONG \o <<"%2520", "1">>),
                    query |-> None],
                   [raises |-> FALSE, text |-> None, query |-> Some(SEOCHOGU)]}}

(***************************************************************************)
(* The process: the index is built once at import (line 258), then the     *)
(* handler answers one request after another.                              *)
(***************************************************************************)
Init ==
    /\ \E csv \in CsvFiles : _INDEX = PNUIndex(csv)
    /\ loads = 1
    /\ phase = "idle"
    /\ request = None
    /\ response = None
    /\ call = Idle

handler ==
    /\ phase = "idle"
    /\ \E req \in Requests :
           /\ request' = Some(req)
           /\ response' = Some(handler_response(_INDEX, req))
    /\ phase' = "responded"
    /\ UNCHANGED <<_INDEX, loads, call>>

\* the response is sent and the process waits for the next request
deliver ==
    /\ phase = "responded"
    /\ phase' = "idle"
    /\ request' = None
    /\ response' = None
    /\ UNCHANGED <<_INDEX, loads, call>>

Next == handler \/ deliver

Spec == Init /\ [][Next]_vars

(***************************************************************************)
(* The vocabulary of the claims, read off the reference table (the rows,   *)
(* not the index built from them) and the answered request.                *)
(***************************************************************************)
\* the handler answered with a JSON record: it ran the lookup
Answered == phase = "responded" /\ response[1].body = BODY_JSON
Res == response[1].res10[1]
Base == response[1].base[1]
Rows == _INDEX.rows

LastOf(s) == s[Len(s)]
Names(rs) == [i \in 1..Len(rs) |-> rs[i].name]

\* the query as the lookup sees it: the cleaned address, the tokens of its
\* district-name part as given (raw) and with the province synonym table
\* applied to the first (canon), and the distinct full names of the table, each
\* at its first row (the keys of byFullName)
Query ==
    LET cleaned == normalize_address(response[1].addr[1])
        part == _norm_spaces(_strip_bunjib(cleaned))
        raw == IF part = <<>> THEN <<>> ELSE split(part)
        firstAt == SelectSeq([i \in 1..Len(Rows) |-> i],
                             LAMBDA i : \A j \in 1..(i - 1) : Rows[j].name # Rows[i].name)
    IN [cleaned |-> cleaned,
        raw |-> raw,
        canon |-> IF raw = <<>> THEN <<>> ELSE [raw EXCEPT ![1] = _canonical_si(@)],
        names |-> [k \in 1..Len(firstAt) |-> Rows[firstAt[k]].name]]

IsFullName(s) == \E i \in 1..Len(Rows) : Rows[i].name = s

\* the code byFullName holds for a name: the one of its last row
CodeOf(s) ==
    Rows[CHOOSE i \in 1..Len(Rows) :
             Rows[i].name = s /\ \A j \in (i + 1)..Len(Rows) : Rows[j].name # s].pnu

\* rows whose secondary-unit token is a and whose lowest-unit token is b
SiguEmdRows(a, b) ==
    SelectSeq(Rows, LAMBDA r : LET ts == split(r.name)
                               IN Len(ts) >= 3 /\ ts[2] = a /\ LastOf(ts) = b)

\* rows whose lowest-unit token is t
EmdRows(t) ==
    SelectSeq(Rows, LAMBDA r : LET ts == split(r.name)
                               IN Len(ts) >= 2 /\ LastOf(ts) = t)

\* names whose province token is si and whose lowest-unit token is b
SiEmdNames(names, si, b) ==
    SelectSeq(names, LAMBDA nm : LET ts == split(nm)
                                 IN Len(ts) >= 2 /\ ts[1] = si /\ LastOf(ts) = b)

\* names that end with the last two tokens of the query
SuffixNames(names, tokens) ==
    IF Len(tokens) < 2 THEN <<>>
    ELSE LET tail2 == join(SubSeq(tokens, Len(tokens) - 1, Len(tokens)))
         IN SelectSeq(names, LAMBDA nm : endswith(nm, tail2))

\* names that occur in the cleaned address
SubstringNames(names, cleaned) == SelectSeq(names, LAMBDA nm : contains(cleaned, nm))

\* the last three tokens, the first of them made canonical
Tail3(tokens) ==
    LET n == Len(tokens)
    IN join(<<_canonical_si(tokens[n - 2]), tokens[n - 1], tokens[n]>>)

IsResolved(res, code, name) ==
    res.ok /\ res.admCd10 = Some(code) /\ res.matched = Some(name) /\ res.candidates = None

IsAmbiguous(res, msg, names) ==
    ~res.ok /\ res.admCd10 = None /\ res.error = Some(msg) /\ res.candidates = Some(names)

IsNotFound(res) ==
    ~res.ok /\ res.admCd10 = None /\ res.error = Some(MSG_NOT_FOUND) /\ res.candidates = None

\* what is owed when the rows hits have secondary unit a and lowest unit b
SiguEmdOutcome(hits) ==
    /\ Len(hits) = 1 => IsResolved(Res, hits[1].pnu, hits[1].name)
    /\ Len(hits) > 1 => IsAmbiguous(Res, MSG_SIGU_EMD, Names(hits))

\* what is owed when the rows hits have lowest unit t
EmdOutcome(hits) ==
    /\ Len(hits) = 1 => IsResolved(Res, hits[1].pnu, hits[1].name)
    /\ Len(hits) > 1 => IsAmbiguous(Res, MSG_EMD, Names(hits))

(***************************************************************************)
(* C1                                                                      *)
(***************************************************************************)
\* C1 as stated: for a two-token query (a, b) whose first token a, as given,
\* ends with gu, gun or si and whose canonicalized join is no full name, one
\* row with secondary unit a and lowest unit b is Resolved to, and several
\* are reported as the ambiguous sigu/emd outcome in row order.
C1_AsStated ==
    Answered =>
        LET q == Query
        IN (/\ Len(q.raw) = 2
            /\ LastOf(q.raw[1]) \in SIGU_SUFFIXES
            /\ ~IsFullName(join(q.canon)))
               => SiguEmdOutcome(SiguEmdRows(q.raw[1], q.raw[2]))

\* C1 amended: the same, for the first token a after the province synonym
\* table has been applied to it (a token the table does not hold is unchanged).
C1_CanonicalFirstToken ==
    Answered =>
        LET q == Query
        IN (/\ Len(q.canon) = 2
            /\ LastOf(q.canon[1]) \in SIGU_SUFFIXES
            /\ ~IsFullName(join(q.canon)))
               => SiguEmdOutcome(SiguEmdRows(q.canon[1], q.canon[2]))

C1_Witness ==
    Answered /\
        LET q == Query
            hits == SiguEmdRows(q.canon[1], q.canon[2])
        IN /\ Len(q.canon) = 2
           /\ LastOf(q.canon[1]) \in SIGU_SUFFIXES
           /\ ~IsFullName(join(q.canon))
           /\ Len(hits) = 2 /\ hits[1].name # hits[2].name
           /\ Res.error = Some(MSG_SIGU_EMD)

(***************************************************************************)
(* C2                                                                      *)
(***************************************************************************)
\* C2 as stated: for a single-token query t, as given, that is no full name,
\* one row with lowest unit t is Resolved to, and several are reported as the
\* ambiguous-emd outcome in row order, without a code.
C2_AsStated ==
    Answered =>
        LET q == Query
        IN (Len(q.raw) = 1 /\ ~IsFullName(q.raw[1])) => EmdOutcome(EmdRows(q.raw[1]))

\* C2 amended: the same, for the token t after the province synonym table has
\* been applied to it.
C2_CanonicalToken ==
    Answered =>
        LET q == Query
        IN (Len(q.canon) = 1 /\ ~IsFullName(q.canon[1]))
               => EmdOutcome(EmdRows(q.canon[1]))

C2_Witness ==
    Answered /\
        LET q == Query
            hits == EmdRows(q.canon[1])
        IN /\ Len(q.canon) = 1 /\ ~IsFullName(q.canon[1])
           /\ Len(hits) = 2 /\ hits[1].name # hits[2].name
           /\ Res.candidates = Some(Names(hits))

(***************************************************************************)
(* C3                                                                      *)
(***************************************************************************)
\* C3: in every output record, pnu is present exactly when ok holds and bun is
\* present, and a present pnu is 19 characters: the 10 of admCd10, the 1 of
\* mtYn, the 4 of bun and the 4 of ji.
C3_Pnu19 ==
    Answered =>
        /\ (Base.pnu # None) <=> (Base.ok /\ Base.bun # None)
        /\ Base.pnu # None =>
              /\ Len(Base.pnu[1]) = 19
              /\ Len(Base.admCd10[1]) = 10 /\ Len(Base.mtYn[1]) = 1
              /\ Len(Base.bun[1]) = 4 /\ Len(Base.ji[1]) = 4
              /\ Base.pnu[1] = Base.admCd10[1] \o Base.mtYn[1] \o Base.bun[1] \o Base.ji[1]

(***************************************************************************)
(* C5                                                                      *)
(***************************************************************************)
\* the handler read a non-empty query from the request (lines 270-280); a
\* preflight is answered before any query is read
CarriesQuery(req) == upper(req.method) # "OPTIONS" /\ truthy(request_q(req))

\* C5: once index construction has failed, every request that carries a
\* non-empty query ends in the index-unavailable failure, never in a result of
\* resolution; the flag never changes and the index is never loaded again.
C5_FailFast ==
    /\ []((~_INDEX.ok /\ phase = "responded" /\ CarriesQuery(request[1]))
            => response[1] = TextResponse(500, BODY_NOT_LOADED))
    /\ [][_INDEX' = _INDEX /\ loads' = loads]_vars

C5_Witness ==
    /\ ~_INDEX.ok /\ loads = 1 /\ phase = "responded" /\ CarriesQuery(request[1])
    /\ response[1].statusCode = 500 /\ response[1].res10 = None

(***************************************************************************)
(* C6                                                                      *)
(***************************************************************************)
\* C6: when the district-name part of the address is empty, resolution ends
\* Unresolved with the reason EmptyQuery, no code and no candidates.
C6_EmptyQuery ==
    (Answered /\ Query.raw = <<>>)
        => /\ ~Res.ok /\ Res.error = Some(MSG_EMPTY)
           /\ Res.admCd10 = None /\ Res.candidates = None

(***************************************************************************)
(* C9                                                                      *)
(***************************************************************************)
\* the first tier, in the order the code tries them, at which the table has a
\* match for the query q
FirstTier(q) ==
    LET n == Len(q.canon)
    IN IF n >= 1 /\ IsFullName(join(q.canon)) THEN "exact"
       ELSE IF n >= 3 /\ IsFullName(Tail3(q.canon)) THEN "tail3"
       ELSE IF /\ n = 2 /\ LastOf(q.canon[1]) \in SIGU_SUFFIXES
               /\ SiguEmdRows(q.canon[1], q.canon[2]) # <<>> THEN "sigu_emd"
       ELSE IF n = 2 /\ SiEmdNames(q.names, _canonical_si(q.canon[1]), q.canon[2]) # <<>>
            THEN "si_emd"
       ELSE IF n = 1 /\ EmdRows(q.canon[1]) # <<>> THEN "emd"
       ELSE IF SuffixNames(q.names, q.canon) # <<>> THEN "tail2"
       ELSE IF SubstringNames(q.names, q.cleaned) # <<>> THEN "substring"
       ELSE "none"

\* the tier a return statement belongs to
TierAt(line) ==
    CASE line = 161 -> "exact"
      [] line = 166 -> "tail3"
      [] line \in {177, 179} -> "sigu_emd"
      [] line \in {194, 196} -> "si_emd"
      [] line \in {210, 211} -> "emd"
      [] line \in {223, 225} -> "tail2"
      [] line \in {247, 249} -> "substring"
      [] line = 255 -> "none"
      [] OTHER -> "not final"

\* C9: the first tier with a match decides the result: an exact full-name
\* match is returned whatever a weaker tier would report, an ambiguous
\* sigu/emd hit is returned without the province scan, and the substring
\* fallback decides only when no earlier tier resolved or found candidates.
C9_TierOrder ==
    Answered =>
        LET q == Query
            tier == FirstTier(q)
        IN /\ TierAt(Res.at) = tier
           /\ tier = "exact" => IsResolved(Res, CodeOf(join(q.canon)), join(q.canon))
           /\ (tier = "sigu_emd" /\ Len(SiguEmdRows(q.canon[1], q.canon[2])) > 1)
                 => IsAmbiguous(Res, MSG_SIGU_EMD,
                                Names(SiguEmdRows(q.canon[1], q.canon[2])))
           /\ Res.at \in {247, 249, 255} => tier \in {"substring", "none"}

\* an exact match is returned although the sigu/emd tier has another row
C9_Witness ==
    Answered /\ Res.at = 161 /\
        LET q == Query
        IN /\ Len(q.canon) = 2
           /\ SiguEmdRows(q.canon[1], q.canon[2]) # <<>>
           /\ Res.matched # Some(SiguEmdRows(q.canon[1], q.canon[2])[1].name)

(***************************************************************************)
(* C10                                                                     *)
(***************************************************************************)
\* a query of one token or more that matches at none of the exact, tail-of-3,
\* two-token and single-token tiers
NoTierMatch(q) ==
    /\ Len(q.canon) >= 1
    /\ ~IsFullName(join(q.canon))
    /\ Len(q.canon) >= 3 => ~IsFullName(Tail3(q.canon))
    /\ Len(q.canon) = 2 =>
          /\ LastOf(q.canon[1]) \in SIGU_SUFFIXES
                => SiguEmdRows(q.canon[1], q.canon[2]) = <<>>
          /\ SiEmdNames(q.names, _canonical_si(q.canon[1]), q.canon[2]) = <<>>
    /\ Len(q.canon) = 1 => EmdRows(q.canon[1]) = <<>>

\* the outcome owed to a list of matching names
DecidedBy(names) ==
    /\ names = <<>> => IsNotFound(Res)
    /\ Len(names) = 1 => IsResolved(Res, CodeOf(names[1]), names[1])
    /\ Len(names) > 1 => IsAmbiguous(Res, MSG_REGION, names)

MatchStarts(s) == {i \in 1..Len(s) : match_at(s, i) # None}

\* the starts of the non-overlapping matches of a left-to-right scan from pos:
\* the leftmost match at or after pos, then the scan from where it ends
RECURSIVE ScanStarts(_, _)
ScanStarts(s, pos) ==
    LET later == {i \in MatchStarts(s) : i >= pos}
        first == CHOOSE i \in later : \A j \in later : i <= j
    IN IF later = {} THEN {}
       ELSE {first} \cup ScanStarts(s, match_at(s, first)[1].end)

\* the marker: san that no word character precedes, then any whitespace, then
\* a digit
MarkerBeforeDigit(s) ==
    \E i \in 1..Len(s), j \in 1..Len(s) :
        /\ i < j /\ s[i] = SAN /\ IsDigit(s[j])
        /\ i > 1 => ~IsWord(s[i - 1])
        /\ \A k \in (i + 1)..(j - 1) : s[k] \in WS

\* C8: without a lot-number pattern in the address bun and ji are both null;
\* otherwise they are those of the last non-overlapping match, ji being 0 when
\* that match has no sub-lot group; and mt is 1 exactly when the marker san
\* followed by a digit occurs in the address, whichever match gave the lot.
C8_LastMatch ==
    call.ret # None =>
        LET s == call.addr
            r == call.ret[1]
            starts == ScanStarts(s, 1)
            last == CHOOSE i \in starts : \A j \in starts : j <= i
            m == match_at(s, last)[1]
        IN /\ MatchStarts(s) = {} => r.bun = None /\ r.ji = None
           /\ MatchStarts(s) # {} =>
                 /\ r.bun = Some(int(m.bun))
                 /\ r.ji = Some(IF m.ji = None THEN 0 ELSE int(m.ji[1]))
           /\ r.mt = (IF MarkerBeforeDigit(s) THEN 1 ELSE 0)

\* two matches; the marker stands in the first, the lot comes from the second,
\* which has neither marker nor sub-lot
C8_Witness ==
    /\ call.ret # None
    /\ Cardinality(ScanStarts(call.addr, 1)) = 2
    /\ call.ret[1].mt = 1 /\ call.ret[1].ji = Some(0)
    /\ LET last == CHOOSE i \in ScanStarts(call.addr, 1) :
                       \A j \in ScanStarts(call.addr, 1) : j <= i
       IN \A k \in last..Len(call.addr) : call.addr[k] # SAN

====
